---- MODULE Spec2Model ----
(***************************************************************************)
(* The Fisher F-test helper `Ftest` of 08_fitting.ipynb and the calls made *)
(* to it.  Floating-point values are modelled as exact rationals extended  *)
(* with signed zero, signed infinity and NaN; every float carries the type *)
(* it has in Python (built-in float or numpy.float64), because the two     *)
(* types divide by zero differently.                                       *)
(***************************************************************************)
EXTENDS Integers, Sequences, FiniteSets, TLC

VARIABLES held, args, locals, outcome, stdout, first, driver, gof

vars == <<held, args, locals, outcome, stdout, first, driver, gof>>

(* ------------------------------ bounds --------------------------------- *)

\* The degrees of freedom and the number of bins range over odd numbers, so
\* that both arguments of the CDF, ndof_2 - ndof_1 and nbins - ndof_2, are
\* even (or invalid): there the Fisher CDF is a rational function of F and
\* is evaluated exactly.

\* ssr_1 ranges over 0, 1, ..., MaxSsr1
MaxSsr1 == 5
\* ssr_2 ranges over 0, 1/2, ..., MaxSsr2Halves/2
MaxSsr2Halves == 2
\* ndof_1 ranges over 1, 3, ..., 2*MaxHalfDof1 + 1
MaxHalfDof1 == 1
\* ndof_2 ranges over 1, 3, ..., 2*MaxHalfDof2 + 1
MaxHalfDof2 == 2
\* nbins ranges over 3, 5, ..., 2*MaxHalfBins + 1
MaxHalfBins == 3
\* where the Fisher CDF is not rational, the value it returns ranges over the
\* multiples of 1/GridDen that its known bounds allow
GridDen == 50
\* the linear fit has 1, ..., MaxPoints data points
MaxPoints == 2
\* the data y are such that sqrt(|y|) ranges over 1, ..., MaxSigma
MaxSigma == 2
\* the residuals y - yhat range over -MaxResid, ..., MaxResid
MaxResid == 1

(* --------------------------- float values ------------------------------ *)

NaN(t) == [k |-> "nan", n |-> 0, d |-> 0, np |-> t]

Inf(s, t) == [k |-> "inf", n |-> s, d |-> 0, np |-> t]

Zero(s, t) == [k |-> "zero", n |-> s, d |-> 1, np |-> t]

Abs(i) == IF i < 0 THEN -i ELSE i

RECURSIVE Gcd(_, _)
Gcd(a, b) == IF b = 0 THEN a ELSE Gcd(b, a % b)

\* the float n/d (d # 0) in lowest terms; an exact zero result is +0.0
Mk(n, d, t) ==
    IF n = 0 THEN Zero(1, t)
    ELSE LET g == Gcd(Abs(n), Abs(d))
             s == IF d < 0 THEN -1 ELSE 1
         IN  [k |-> "num", n |-> (s * n) \div g, d |-> (s * d) \div g, np |-> t]

\* a Python int converted to float for mixed arithmetic
PyFloat(i) == Mk(i, 1, FALSE)

Sgn(v) == IF v.n < 0 THEN -1 ELSE 1

IsNaN(v) == v.k = "nan"

IsZero(v) == v.k = "zero"

\* a < b for floats none of which is infinite; any comparison with NaN is False
Lt(a, b) ==
    IF IsNaN(a) \/ IsNaN(b) THEN FALSE
    ELSE LET an == IF IsZero(a) THEN 0 ELSE a.n
             bn == IF IsZero(b) THEN 0 ELSE b.n
         IN  an * b.d < bn * a.d

Le(a, b) ==
    IF IsNaN(a) \/ IsNaN(b) THEN FALSE
    ELSE LET an == IF IsZero(a) THEN 0 ELSE a.n
             bn == IF IsZero(b) THEN 0 ELSE b.n
         IN  an * b.d <= bn * a.d

\* numeric equality (0.0 == -0.0, NaN # NaN), whatever the Python type
NumEq(a, b) == Le(a, b) /\ Le(b, a)

\* the marker of a ZeroDivisionError raised while evaluating an expression
Raised == [k |-> "raise", n |-> 0, d |-> 0, np |-> FALSE]

IsRaised(v) == v.k = "raise"

\* a - b for floats none of which is infinite
fsub(a, b) ==
    LET an == IF IsZero(a) THEN 0 ELSE a.n
        bn == IF IsZero(b) THEN 0 ELSE b.n
    IN  IF IsNaN(a) \/ IsNaN(b) THEN NaN(a.np \/ b.np)
        ELSE Mk(an * b.d - bn * a.d, a.d * b.d, a.np \/ b.np)

\* a / b: Python floats raise ZeroDivisionError on a zero divisor, numpy
\* floats follow IEEE 754 (inf or nan, with a warning)
fdiv(a, b) ==
    LET t == a.np \/ b.np
        s == Sgn(a) * Sgn(b)
    IN  IF IsRaised(a) \/ IsRaised(b) THEN Raised
        ELSE IF IsZero(b) /\ ~t THEN Raised
        ELSE IF IsNaN(a) \/ IsNaN(b) THEN NaN(t)
        ELSE IF IsZero(b) THEN (IF IsZero(a) THEN NaN(t) ELSE Inf(s, t))
        ELSE IF a.k = "inf" THEN (IF b.k = "inf" THEN NaN(t) ELSE Inf(s, t))
        ELSE IF b.k = "inf" THEN Zero(s, t)
        ELSE IF IsZero(a) THEN Zero(s, t)
        ELSE Mk(a.n * b.d, a.d * b.n, t)

\* a + b for finite floats
fadd(a, b) ==
    LET an == IF IsZero(a) THEN 0 ELSE a.n
        bn == IF IsZero(b) THEN 0 ELSE b.n
    IN  Mk(an * b.d + bn * a.d, a.d * b.d, a.np \/ b.np)

\* a**2 for a finite float
fsq(a) == IF IsZero(a) THEN Zero(1, a.np) ELSE Mk(a.n * a.n, a.d * a.d, a.np)

\* np.abs(a) for a finite float
fabs(a) == IF IsZero(a) THEN Zero(1, a.np) ELSE Mk(Abs(a.n), a.d, a.np)

\* np.sqrt(a) for a float a >= 0 that is the square of an integer
fsqrt(a) ==
    IF IsZero(a) THEN a
    ELSE Mk(CHOOSE r \in 0..a.n : r * r = a.n, 1, TRUE)

RECURSIVE fsum(_)
\* np.sum of a sequence of finite floats
fsum(s) == IF s = << >> THEN Zero(1, TRUE) ELSE fadd(s[1], fsum(Tail(s)))

(* ------------------- scipy.stats.f.cdf (Fisher CDF) -------------------- *)

RECURSIVE Pow(_, _)
Pow(b, e) == IF e = 0 THEN 1 ELSE b * Pow(b, e - 1)

RECURSIVE Binom(_, _)
Binom(n, j) == IF j = 0 \/ j = n THEN 1 ELSE Binom(n - 1, j - 1) + Binom(n - 1, j)

RECURSIVE IncbetNum(_, _, _, _)
\* sum over i in j..n of C(n,i) A^i (B-A)^(n-i)
IncbetNum(j, n, A, B) ==
    IF j > n THEN 0
    ELSE Binom(n, j) * Pow(A, j) * Pow(B - A, n - j) + IncbetNum(j + 1, n, A, B)

\* regularized incomplete beta function I_w(a, b) for integer a, b >= 1 and
\* 0 < w < 1: the upper tail of the binomial distribution with a+b-1 trials
incbet(a, b, w) ==
    LET n == a + b - 1
    IN  Mk(IncbetNum(a, n, w.n, w.d), Pow(w.d, n), TRUE)

\* special.fdtr(dfn, dfd, x) = I_w(dfn/2, dfd/2) with w = dfn*x/(dfd + dfn*x),
\* evaluated where it is rational: even dfn and dfd, finite x > 0
fdtr(dfn, dfd, x) ==
    incbet(dfn \div 2, dfd \div 2, Mk(dfn * x.n, dfd * x.d + dfn * x.n, TRUE))

\* stats.f.cdf(x, dfn, dfd): NaN for invalid shape parameters or NaN x, 0 at
\* and below the lower end of the support, 1 at +inf, fdtr in between
fcdf(x, dfn, dfd) ==
    IF ~(dfn > 0 /\ dfd > 0) \/ IsNaN(x) THEN NaN(TRUE)
    ELSE IF IsZero(x) \/ x.n < 0 THEN Zero(1, TRUE)
    ELSE IF x.k = "inf" THEN Mk(1, 1, TRUE)
    ELSE fdtr(dfn, dfd, x)

\* what is known of c = fdtr(dfn, dfd, x) for finite x > 0 when it is not
\* evaluated exactly: 0 <= c <= 1; the upper tail is at most mean/x, the mean
\* of the Fisher distribution being dfd/(dfd - 2) for dfd > 2 (Markov); and
\* for dfn = 1, c <= P(Z^2 <= x) <= sqrt(2x/pi), hence c^2 <= (16/25) x
\* (Jensen, the chi-square CDF with one degree of freedom being concave)
Admissible(c, x, dfn, dfd) ==
    LET cn == IF IsZero(c) THEN 0 ELSE c.n
    IN  /\ dfd > 2 => (c.d - cn) * (dfd - 2) * x.n <= dfd * c.d * x.d
        /\ dfn = 1 => 25 * cn * cn * x.d <= 16 * x.n * c.d * c.d

\* the values stats.f.cdf(x, dfn, dfd) may return: the exact one where fcdf
\* evaluates it, else every multiple of 1/GridDen within the known bounds
CdfValues(x, dfn, dfd) ==
    IF \/ ~(dfn > 0 /\ dfd > 0) \/ IsNaN(x) \/ IsZero(x) \/ x.n < 0 \/ x.k = "inf"
       \/ (dfn % 2 = 0 /\ dfd % 2 = 0)
    THEN {fcdf(x, dfn, dfd)}
    ELSE {c \in {Mk(i, GridDen, TRUE) : i \in 0..GridDen} : Admissible(c, x, dfn, dfd)}

(* ------------------------------- Ftest --------------------------------- *)

\* "%.3f" % v for v in [0, 1] or NaN: thousandths, ties to even
Fmt3(v) ==
    IF IsNaN(v) THEN [k |-> "nan", milli |-> 0]
    ELSE IF IsZero(v) THEN [k |-> "num", milli |-> 0]
    ELSE LET q == (v.n * 1000) \div v.d
             r == (v.n * 1000) % v.d
         IN  [k |-> "num",
              milli |-> IF 2 * r > v.d \/ (2 * r = v.d /\ q % 2 = 1) THEN q + 1 ELSE q]

\* the literal 0.10
Threshold == Mk(1, 10, FALSE)

Unset == [k |-> "unset", n |-> 0, d |-> 0, np |-> FALSE]

\* mutant of F: the residual sums subtracted the wrong way round
F_SwappedSsr(ssr_1, ssr_2, ndof_1, ndof_2, nbins) ==
    fdiv(fdiv(fsub(ssr_2, ssr_1), PyFloat(ndof_2 - ndof_1)),
         fdiv(ssr_2, PyFloat(nbins - ndof_2)))

\* mutant of F: the absolute value of the difference of the residual sums
F_AbsDiff(ssr_1, ssr_2, ndof_1, ndof_2, nbins) ==
    LET diff == fsub(ssr_1, ssr_2)
        pos  == IF diff.n < 0 THEN fsub(ssr_2, ssr_1) ELSE diff
    IN  fdiv(fdiv(pos, PyFloat(ndof_2 - ndof_1)),
             fdiv(ssr_2, PyFloat(nbins - ndof_2)))

\* mutant of F: the richer sum is divided by nbins, not by nbins - ndof_2
F_NoBinsCorrection(ssr_1, ssr_2, ndof_1, ndof_2, nbins) ==
    fdiv(fdiv(fsub(ssr_1, ssr_2), PyFloat(ndof_2 - ndof_1)),
         fdiv(ssr_2, PyFloat(nbins)))

\* mutant of F: the richer sum is divided by nbins - ndof_1
F_SimplerDofDivisor(ssr_1, ssr_2, ndof_1, ndof_2, nbins) ==
    fdiv(fdiv(fsub(ssr_1, ssr_2), PyFloat(ndof_2 - ndof_1)),
         fdiv(ssr_2, PyFloat(nbins - ndof_1)))

\* F = ((ssr_1 - ssr_2)/(ndof_2 - ndof_1)) / (ssr_2/(nbins - ndof_2))
F(ssr_1, ssr_2, ndof_1, ndof_2, nbins) ==
    fdiv(fdiv(fsub(ssr_1, ssr_2), PyFloat(ndof_2 - ndof_1)),
         fdiv(ssr_2, PyFloat(nbins - ndof_2)))

\* mutant of CL: the degrees of freedom passed to the CDF in the other order
CL_SwappedDof(f, ndof_1, ndof_2, nbins) ==
    fsub(Mk(1, 1, FALSE), fcdf(f, nbins - ndof_2, ndof_2 - ndof_1))

\* mutant of CL: the CDF itself, not its complement
CL_NoComplement(f, ndof_1, ndof_2, nbins) ==
    fsub(fcdf(f, ndof_2 - ndof_1, nbins - ndof_2), Zero(1, FALSE))

\* CL = 1. - stats.f.cdf(F, ndof_2 - ndof_1, nbins - ndof_2)
CL(f, ndof_1, ndof_2, nbins) ==
    fsub(Mk(1, 1, FALSE), fcdf(f, ndof_2 - ndof_1, nbins - ndof_2))

\* mutant of Answer: the rule as the notebook's text words it, "if CL < 10%
\* the simpler function is sufficient, otherwise more parameters are needed"
Answer_AsDocumented(cl) == IF Lt(cl, Threshold) THEN "NO" ELSE "YES"

\* mutant of Answer: the threshold itself counts as below it
Answer_Le(cl) == IF Le(cl, Threshold) THEN "YES" ELSE "NO"

\* "YES" if CL < 0.10 else "NO"
Answer(cl) == IF Lt(cl, Threshold) THEN "YES" ELSE "NO"

\* mutant of Report: the line is printed whether or not verbose is set
Report_Always(cl, verbose) ==
    << [cl |-> Fmt3(cl), necessary |-> Answer(cl)] >>

\* if verbose: print("CL: %.3f" % CL, ", additional parameter necessary:", ...)
Report(cl, verbose) ==
    IF verbose THEN << [cl |-> Fmt3(cl), necessary |-> Answer(cl)] >> ELSE << >>

\* mutant of Ftest: returns the F statistic
Ftest_ReturnsF(ssr_1, ssr_2, ndof_1, ndof_2, nbins, verbose) ==
    LET f  == F(ssr_1, ssr_2, ndof_1, ndof_2, nbins)
        cl == CL(f, ndof_1, ndof_2, nbins)
    IN  IF IsRaised(f)
        THEN [status |-> "raise", exc |-> "ZeroDivisionError", value |-> << >>,
              F |-> Unset, CL |-> Unset, out |-> << >>]
        ELSE [status |-> "return", exc |-> "", value |-> << f >>,
              F |-> f, CL |-> cl, out |-> Report(cl, verbose)]

\* mutant of Ftest: the value returned is read from a global CL, which holds
\* what the previous call computed, whenever an earlier call has set it
Ftest_StaleCL(ssr_1, ssr_2, ndof_1, ndof_2, nbins, verbose) ==
    LET f  == F(ssr_1, ssr_2, ndof_1, ndof_2, nbins)
        cl == CL(f, ndof_1, ndof_2, nbins)
    IN  IF IsRaised(f)
        THEN [status |-> "raise", exc |-> "ZeroDivisionError", value |-> << >>,
              F |-> Unset, CL |-> Unset, out |-> << >>]
        ELSE [status |-> "return", exc |-> "",
              value |-> << IF locals.CL.k = "unset" THEN cl ELSE locals.CL >>,
              F |-> f, CL |-> cl, out |-> Report(cl, verbose)]

\* def Ftest(ssr_1, ssr_2, ndof_1, ndof_2, nbins, verbose=False): how the call
\* ends (the objects it returns, or the exception it raises), its locals at
\* that point, and the lines it prints
Ftest(ssr_1, ssr_2, ndof_1, ndof_2, nbins, verbose) ==
    LET f  == F(ssr_1, ssr_2, ndof_1, ndof_2, nbins)
        cl == CL(f, ndof_1, ndof_2, nbins)
    IN  IF IsRaised(f)
        THEN [status |-> "raise", exc |-> "ZeroDivisionError", value |-> << >>,
              F |-> Unset, CL |-> Unset, out |-> << >>]
        ELSE [status |-> "return", exc |-> "", value |-> << cl >>,
              F |-> f, CL |-> cl, out |-> Report(cl, verbose)]

\* 1. - c, for c the value stats.f.cdf returned
CLof(c) == fsub(Mk(1, 1, FALSE), c)

\* Ftest where the CDF is not evaluated exactly: c is the value that
\* stats.f.cdf(F, ndof_2 - ndof_1, nbins - ndof_2) returned
FtestGiven(c, ssr_1, ssr_2, ndof_1, ndof_2, nbins, verbose) ==
    LET f  == F(ssr_1, ssr_2, ndof_1, ndof_2, nbins)
        cl == CLof(c)
    IN  IF IsRaised(f)
        THEN [status |-> "raise", exc |-> "ZeroDivisionError", value |-> << >>,
              F |-> Unset, CL |-> Unset, out |-> << >>]
        ELSE [status |-> "return", exc |-> "", value |-> << cl >>,
              F |-> f, CL |-> cl, out |-> Report(cl, verbose)]

(* ------------------------------ the calls ------------------------------ *)

\* the odd numbers 2*lo + 1, ..., 2*hi + 1
OddFrom(lo, hi) == {2 * i + 1 : i \in lo..hi}

NoArgs == [ssr_1 |-> Unset, ssr_2 |-> Unset, ndof_1 |-> 0, ndof_2 |-> 0,
           nbins |-> 0, verbose |-> FALSE]

NoOutcome == [status |-> "none", exc |-> "", value |-> << >>]

NoLocals == [F |-> Unset, CL |-> Unset]

NoFirst == [args |-> NoArgs, outcome |-> NoOutcome]

NoHeld == [ssr_2 |-> Unset, ndof_1 |-> 0, ndof_2 |-> 0, nbins |-> 0]

\* the goodness-of-fit cells before they run
NoGof == [pc |-> "idle", y |-> << >>, yhat |-> << >>, sigma_y |-> << >>,
          ndof |-> 0, chi2 |-> Unset, pvalue |-> << >>, printed |-> << >>]

\* a model not fitted yet
NoFit == [ssr |-> Unset, nparams |-> 0, ndof |-> 0, nobs |-> 0]

\* the driver cell before it runs: no data, no fits, no test made; printed
\* holds the lines the cell itself prints, stdout those Ftest prints
NoDriver == [pc |-> "idle", N |-> 0, fits |-> <<NoFit, NoFit, NoFit>>,
             cl_1_vs_2 |-> << >>, cl_2_vs_3 |-> << >>, tests |-> << >>,
             printed |-> << >>]

\* The arguments other than ssr_1 and verbose are held over the calls of a
\* behaviour: the richer model's fit, the two models' degrees of freedom and
\* the number of bins.  np tells whether the residual sums are numpy.float64
\* (as np.sum returns them) or built-in floats.
Init ==
    /\ held \in [ssr_2 : {Mk(i, 2, t) : i \in 0..MaxSsr2Halves, t \in BOOLEAN},
                 ndof_1 : OddFrom(0, MaxHalfDof1),
                 ndof_2 : OddFrom(0, MaxHalfDof2),
                 nbins : OddFrom(1, MaxHalfBins)]
    /\ args = NoArgs
    /\ locals = NoLocals
    /\ outcome = NoOutcome
    /\ stdout = << >>
    /\ first = NoFirst
    /\ driver = NoDriver
    /\ gof = NoGof

\* a notebook cell calls Ftest(ssr_1, ssr_2, ndof_1, ndof_2, nbins, verbose);
\* stdout is the output area of that cell
Call(ssr_1, verbose) ==
    LET r == Ftest(ssr_1, held.ssr_2, held.ndof_1, held.ndof_2, held.nbins, verbose)
        a == [ssr_1 |-> ssr_1, ssr_2 |-> held.ssr_2, ndof_1 |-> held.ndof_1,
              ndof_2 |-> held.ndof_2, nbins |-> held.nbins, verbose |-> verbose]
        o == [status |-> r.status, exc |-> r.exc, value |-> r.value]
    IN  /\ args' = a
        /\ locals' = [F |-> r.F, CL |-> r.CL]
        /\ outcome' = o
        /\ stdout' = r.out
        /\ first' = IF first = NoFirst /\ ~verbose
                     THEN [args |-> a, outcome |-> o]
                     ELSE first
        /\ UNCHANGED <<held, driver, gof>>

Next ==
    \E i \in 0..MaxSsr1, verbose \in BOOLEAN :
        Call(Mk(i, 1, held.ssr_2.np), verbose)

Spec == Init /\ [][Next]_vars

(* --------------------------- the driver cell --------------------------- *)

\* N = 100
N == 100

\* the residual sums of squares the three fits may give: np.sum returns
\* numpy.float64
DriverSsr == {Mk(160, 2, TRUE), Mk(161, 2, TRUE), Mk(200, 2, TRUE), Mk(240, 2, TRUE)}

\* mutant of Ndof: the number of parameters itself
Ndof_NoMinusOne(nparams) == nparams

\* ndof_k = <n of parameters> - 1
Ndof(nparams) == nparams - 1

\* ssr_k = np.sum((yk - y)**2), ndof_k = <n of parameters> - 1: the fit of the
\* polynomial with nparams parameters to the nobs points of (x, y)
Fit(ssr, nparams, nobs) ==
    [ssr |-> ssr, nparams |-> nparams, ndof |-> Ndof(nparams), nobs |-> nobs]

InitDriver ==
    /\ held = NoHeld
    /\ args = NoArgs
    /\ locals = NoLocals
    /\ outcome = NoOutcome
    /\ stdout = << >>
    /\ first = NoFirst
    /\ driver = [NoDriver EXCEPT !.pc = "fit"]
    /\ gof = NoGof

\* lines 728-763: N points of data are generated and the polynomials with 2, 3
\* and 4 parameters are fitted to them; a polynomial with more parameters
\* leaves no larger a residual sum
FitModels ==
    /\ driver.pc = "fit"
    /\ \E s1 \in DriverSsr, s2 \in DriverSsr, s3 \in DriverSsr :
        /\ Le(s2, s1) /\ Le(s3, s2)
        /\ driver' = [driver EXCEPT !.pc = "test12", !.N = N,
                        !.fits = <<Fit(s1, 2, N), Fit(s2, 3, N), Fit(s3, 4, N)>>,
                        !.printed = << <<"SSR:", s1, s2, s3>> >>]
    /\ UNCHANGED <<held, args, locals, outcome, stdout, first, gof>>

\* Ftest(ssr_a, ssr_b, ndof_a, ndof_b, N, verbose=True) for the fits a and b,
\* c being the value stats.f.cdf returns in it: the variables of the call
TestCall(a, b, c) ==
    LET fa == driver.fits[a]
        fb == driver.fits[b]
        r  == FtestGiven(c, fa.ssr, fb.ssr, fa.ndof, fb.ndof, driver.N, TRUE)
    IN  /\ args' = [ssr_1 |-> fa.ssr, ssr_2 |-> fb.ssr, ndof_1 |-> fa.ndof,
                    ndof_2 |-> fb.ndof, nbins |-> driver.N, verbose |-> TRUE]
        /\ locals' = [F |-> r.F, CL |-> r.CL]
        /\ outcome' = [status |-> r.status, exc |-> r.exc, value |-> r.value]
        /\ stdout' = stdout \o r.out

\* the values stats.f.cdf may return in Ftest called for the fits a and b
TestCdfValues(a, b) ==
    LET fa == driver.fits[a]
        fb == driver.fits[b]
    IN  CdfValues(F(fa.ssr, fb.ssr, fa.ndof, fb.ndof, driver.N),
                  fb.ndof - fa.ndof, driver.N - fb.ndof)

\* lines 771-772: cl_1_vs_2 = Ftest(ssr_1, ssr_2, ndof_1, ndof_2, N, verbose=True)
TestLinearVsQuadratic ==
    /\ driver.pc = "test12"
    /\ \E c \in TestCdfValues(1, 2) :
        /\ TestCall(1, 2, c)
        /\ driver' = [driver EXCEPT
                        !.pc = IF outcome'.status = "return" THEN "test23" ELSE "failed",
                        !.cl_1_vs_2 = outcome'.value,
                        !.tests = Append(driver.tests, <<1, 2>>),
                        !.printed = Append(driver.printed,
                                           <<"Test Linear vs Quadratic:">>)]
    /\ UNCHANGED <<held, first, gof>>

\* lines 774-775: cl_2_vs_3 = Ftest(ssr_2, ssr_3, ndof_2, ndof_3, N, verbose=True)
TestQuadraticVsCubic ==
    /\ driver.pc = "test23"
    /\ \E c \in TestCdfValues(2, 3) :
        /\ TestCall(2, 3, c)
        /\ driver' = [driver EXCEPT
                        !.pc = IF outcome'.status = "return" THEN "done" ELSE "failed",
                        !.cl_2_vs_3 = outcome'.value,
                        !.tests = Append(driver.tests, <<2, 3>>),
                        !.printed = Append(driver.printed,
                                           <<"Test Quadratic vs Cubic:">>)]
    /\ UNCHANGED <<held, first, gof>>

NextDriver == FitModels \/ TestLinearVsQuadratic \/ TestQuadraticVsCubic

SpecDriver == InitDriver /\ [][NextDriver]_vars

(* ---------------------- the goodness-of-fit cells ---------------------- *)

\* the values a data point may have: sqrt(|y|) is a whole number
DataValues == {Mk(sg * r * r, 1, TRUE) : sg \in {-1, 1}, r \in 1..MaxSigma}

\* the fitted values a_hat + b_hat * x may take at a point of value v
FittedValues(v) == {fsub(v, Mk(r, 1, TRUE)) : r \in (-MaxResid)..MaxResid}

\* the value 1. - stats.chi2.cdf(x, df), kept as the expression it is
ChiSquareTail(x, df) == << [x |-> x, df |-> df] >>

\* one term of the sum: ((y - (a_hat + b_hat * x))**2) / sigma_y
Chi2Term(y, yhat, sigma) == fdiv(fsq(fsub(y, yhat)), sigma)

\* the data y and the fitted line a_hat + b_hat * x of the regression cell,
\* at the points of x
InitGof ==
    /\ held = NoHeld
    /\ args = NoArgs
    /\ locals = NoLocals
    /\ outcome = NoOutcome
    /\ stdout = << >>
    /\ first = NoFirst
    /\ driver = NoDriver
    /\ \E n \in 1..MaxPoints :
         \E y \in [1..n -> DataValues] :
           \E yhat \in [1..n -> UNION {FittedValues(v) : v \in DataValues}] :
             /\ \A i \in 1..n : yhat[i] \in FittedValues(y[i])
             /\ gof = [NoGof EXCEPT !.pc = "sigma", !.y = y, !.yhat = yhat]

\* line 556: sigma_y = np.sqrt(np.abs(y))
SigmaCell ==
    /\ gof.pc = "sigma"
    /\ gof' = [gof EXCEPT !.pc = "chi2",
                 !.sigma_y = [i \in 1..Len(gof.y) |-> fsqrt(fabs(gof.y[i]))]]
    /\ UNCHANGED <<held, args, locals, outcome, stdout, first, driver>>

\* lines 569-576: ndof, chi2 and pvalue are computed and printed
Chi2Cell ==
    /\ gof.pc = "chi2"
    /\ LET ndof   == Len(gof.y) - 1
           chi2   == fsum([i \in 1..Len(gof.y) |->
                             Chi2Term(gof.y[i], gof.yhat[i], gof.sigma_y[i])])
           pvalue == ChiSquareTail(chi2, ndof)
       IN  gof' = [gof EXCEPT !.pc = "done", !.ndof = ndof, !.chi2 = chi2,
                     !.pvalue = pvalue,
                     !.printed = << <<"n degrees of freedom =", <<ndof>> >>,
                                    <<"chi2 =", <<chi2>> >>,
                                    <<"p-value =", pvalue>> >>]
    /\ UNCHANGED <<held, args, locals, outcome, stdout, first, driver>>

NextGof == SigmaCell \/ Chi2Cell

SpecGof == InitGof /\ [][NextGof]_vars

(* ------------------------------ the claims ----------------------------- *)

Called == outcome.status # "none"

Returned == outcome.status = "return"

\* the degrees of freedom the call passes to the CDF
dfn == args.ndof_2 - args.ndof_1

dfd == args.nbins - args.ndof_2

ValidDof == dfn > 0 /\ dfd > 0

IsFinite(v) == v.k \in {"num", "zero"}

Positive(v) == v.k = "num" /\ v.n > 0

\* numerator of a finite float
Num(v) == IF IsZero(v) THEN 0 ELSE v.n

IsOne(v) == v.k = "num" /\ v.n = 1 /\ v.d = 1

\* the call just made is a valid comparison: nested models, enough bins, a
\* positive residual sum of the richer model
ValidCall == Called /\ ValidDof /\ Positive(args.ssr_2)

\* C1: for a valid call, the local F is the quotient
\* ((ssr_1 - ssr_2)/(ndof_2 - ndof_1)) / (ssr_2/(nbins - ndof_2)), stated here
\* by cross-multiplication, and the local CL is 1 - FisherCDF(F, d1, d2) with
\* d1 = ndof_2 - ndof_1 first and d2 = nbins - ndof_2 second.
C1_FAndCL ==
    ValidCall =>
        /\ Returned
        /\ IsFinite(locals.F)
        /\ Num(locals.F) * (args.ssr_1.d * dfn * args.ssr_2.n)
             = (Num(args.ssr_1) * args.ssr_2.d - args.ssr_2.n * args.ssr_1.d)
               * dfd * locals.F.d
        /\ locals.CL = fsub(Mk(1, 1, FALSE), fcdf(locals.F, dfn, dfd))

\* a valid call with different degrees of freedom and a positive F
C1_Witness ==
    ValidCall /\ Returned /\ dfn # dfd /\ Positive(locals.F) /\ ~IsOne(locals.CL)

C3_ReturnsTriple ==
    Returned =>
        /\ Len(outcome.value) = 3
        /\ outcome.value[1] = locals.F
        /\ outcome.value[2] = locals.CL
        /\ outcome.value[3] = Answer(locals.CL)

\* C3 amended: every successful call returns one object, the confidence level
\* CL; F stays a local of the call.
C3_ReturnsCL ==
    Returned => outcome.value = << locals.CL >>

\* a successful call whose F and CL differ
C3_Witness ==
    Returned /\ IsFinite(locals.F) /\ IsFinite(locals.CL) /\ ~NumEq(locals.F, locals.CL)

\* C4 as stated: a call with ndof_2 <= ndof_1, otherwise valid, ends in an
\* error; it never returns.
C4_InvalidNestingRaises ==
    Called /\ dfn <= 0 /\ dfd > 0 /\ Positive(args.ssr_2) => outcome.status = "raise"

\* C5 as stated: a call with nbins <= ndof_2 ends in an error; it never returns.
C5_InsufficientDataRaises ==
    Called /\ dfd <= 0 => outcome.status = "raise"

\* C6 as stated: a call with valid degrees of freedom and ssr_2 = 0 returns,
\* with F = +inf when ssr_1 > 0 and with CL = 0.
C6_ZeroRichSsr ==
    Called /\ ValidDof /\ IsZero(args.ssr_2) =>
        /\ Returned
        /\ Positive(args.ssr_1) => (locals.F.k = "inf" /\ locals.F.n = 1)
        /\ IsZero(locals.CL)

\* C7: a valid call with ssr_2 > ssr_1 returns, with F < 0 and CL = 1.
C7_NegativeF ==
    ValidCall /\ Lt(args.ssr_1, args.ssr_2) =>
        /\ Returned
        /\ locals.F.k = "num" /\ locals.F.n < 0
        /\ Len(outcome.value) = 1 /\ IsOne(outcome.value[1])

\* a valid call whose richer model fits worse has returned
C7_Witness ==
    ValidCall /\ Lt(args.ssr_1, args.ssr_2) /\ Returned

BothReturned ==
    first.outcome.status = "return" /\ Returned

\* C9: of two valid calls that differ in (ssr_1 - ssr_2) only, the one with
\* the larger difference returns the smaller or equal confidence level.  (ssr_2
\* and the degrees of freedom are held, so the difference grows with ssr_1.)
C9_Monotone ==
    ValidCall /\ BothReturned =>
        /\ Le(first.args.ssr_1, args.ssr_1)
             => Le(outcome.value[1], first.outcome.value[1])
        /\ Le(args.ssr_1, first.args.ssr_1)
             => Le(first.outcome.value[1], outcome.value[1])

\* two valid calls, the later with the larger difference and a strictly
\* smaller confidence level
C9_Witness ==
    /\ ValidCall /\ BothReturned
    /\ Lt(first.args.ssr_1, args.ssr_1)
    /\ Lt(outcome.value[1], first.outcome.value[1])

\* the call just made has the five inputs of the remembered call
SameInputs ==
    /\ first # NoFirst
    /\ args.ssr_1 = first.args.ssr_1 /\ args.ssr_2 = first.args.ssr_2
    /\ args.ndof_1 = first.args.ndof_1 /\ args.ndof_2 = first.args.ndof_2
    /\ args.nbins = first.args.nbins

Below10(v) == IsFinite(v) /\ 10 * Num(v) < v.d

\* CL is a number, 0.10 or above
AtLeast10(v) == IsFinite(v) /\ 10 * Num(v) >= v.d

CalledWith(ssr_1, ssr_2, ndof_1, ndof_2, nbins) ==
    /\ Called
    /\ NumEq(args.ssr_1, ssr_1) /\ NumEq(args.ssr_2, ssr_2)
    /\ args.ndof_1 = ndof_1 /\ args.ndof_2 = ndof_2 /\ args.nbins = nbins

\* the answer in the line the call just made printed
LastAnswer == stdout[Len(stdout)].necessary

C15_StopsAtSufficient ==
    /\ \A k \in 1..Len(driver.tests) : driver.tests[k] = <<k, k + 1>>
    /\ \A k \in 2..Len(driver.tests) :
           k - 1 <= Len(stdout) => stdout[k - 1].necessary = "YES"

\* the parameters of the fit whose ssr and ndof the call just made was given
\* first (a = 1) and second (a = 2)
FitOf(a) == driver.fits[driver.tests[Len(driver.tests)][a]]

\* C17: every call of Ftest the driver makes passes the simpler fit first and
\* the richer second, each ndof being the fit's parameter count minus one
\* (1, 2, 3 for 2, 3, 4 parameters), ndof_rich = ndof_simple + 1, and
\* nbins = N = 100 > ndof_rich, both sums computed over the same N points.
C17_DriverPreconditions ==
    /\ \A k \in 1..3 : driver.fits[k] # NoFit =>
           /\ driver.fits[k].nparams = k + 1
           /\ driver.fits[k].ndof = driver.fits[k].nparams - 1
           /\ driver.fits[k].ndof = k
    /\ Len(driver.tests) > 0 =>
           /\ Called
           /\ FitOf(2).nparams = FitOf(1).nparams + 1
           /\ args.ssr_1 = FitOf(1).ssr /\ args.ndof_1 = FitOf(1).ndof
           /\ args.ssr_2 = FitOf(2).ssr /\ args.ndof_2 = FitOf(2).ndof
           /\ args.ndof_1 = FitOf(1).nparams - 1
           /\ args.ndof_2 = FitOf(2).nparams - 1
           /\ args.ndof_2 = args.ndof_1 + 1 /\ args.ndof_2 > args.ndof_1
           /\ args.nbins = driver.N /\ args.nbins = 100
           /\ args.nbins > args.ndof_2
           /\ FitOf(1).nobs = args.nbins /\ FitOf(2).nobs = args.nbins

C17_Witness ==
    /\ driver.tests = << <<1, 2>>, <<2, 3>> >>
    /\ Returned
    /\ args.ndof_1 = 2 /\ args.ndof_2 = 3 /\ args.nbins = 100

\* the chi-square of the notebook's formula: the sum over the data points of
\* (y_i - yhat_i)^2 / sigma_i^2
Chi2AsDefined ==
    fsum([i \in 1..Len(gof.y) |->
            fdiv(fsq(fsub(gof.y[i], gof.yhat[i])), fsq(gof.sigma_y[i]))])

\* C16 as stated: the chi-square computed for the linear fit is the sum over
\* the data points of the squared residual divided by the squared uncertainty
\* sigma_i^2, and the p-value is 1 minus the chi-square CDF of that statistic
\* at ndof = number of data points - 1.
C16_Chi2AsDefined ==
    gof.pc = "done" =>
        /\ NumEq(gof.chi2, Chi2AsDefined)
        /\ gof.ndof = Len(gof.y) - 1
        /\ gof.pvalue = ChiSquareTail(gof.chi2, Len(gof.y) - 1)

====
